---- MODULE Spec2Model ----
(***************************************************************************)
(* Model of the main process of pdf-signer (src/src/main/index.ts):        *)
(*   - the envelope-encrypted credential vault (master.key.enc,            *)
(*     user-data.bin) behind the auth:* IPC handlers;                      *)
(*   - the sign-pdf IPC handler, one step per synchronous segment between  *)
(*     two awaits, so that concurrent invocations interleave as they do on *)
(*     the JavaScript event loop.                                          *)
(* Cryptography is symbolic: random bytes are fresh, a GCM tag is an       *)
(* injective function of key, nonce and ciphertext.  Every value is a      *)
(* tuple whose first element names its kind.                               *)
(***************************************************************************)
EXTENDS Integers, Sequences, FiniteSets, TLC

\* ---------------------------------------------------------------- bounds
\* crypto.randomBytes may be called at most MaxRand times in a behaviour
MaxRand == 4
\* sign-pdf invocations that may be in flight at the same time
MaxReqs == 2
\* signatures a document may collect
MaxSigs == 1
\* keys encryptData and decryptData are applied with on their own
MaxKeys == 2
\* calls of encryptData on its own in a behaviour
MaxEncrypts == 2

\* ------------------------------------------------------ program constants
KeyLen == 32
IvLen == 16
GcmTagLen == 16
DecIvEnd == 16
DecTagEnd == 32

\* ------------------------------------------------------------ value kinds
Null == <<"null">>
NoFile == <<"nofile">>
Garbage == <<"garbage">>
Undefined == "<undefined>"
NoRecord == <<"norecord">>

Min(a, b) == IF a < b THEN a ELSE b

\* ------------------------------------------------------------- buffers
\* crypto.randomBytes(n): the id-th draw, n bytes no other draw shares
randomBytes(id, n) == [i \in 1..n |-> <<"rnd", id, i>>]

\* Buffer.prototype.subarray(start, end), both clamped to the length
subarray(buf, start, end) == SubSeq(buf, Min(start, Len(buf)) + 1, Min(end, Len(buf)))

\* a compact name of a buffer inside symbolic ciphertext: injective
IsRandom(buf) ==
    /\ Len(buf) > 0
    /\ buf[1][1] = "rnd"
    /\ \A i \in 1..Len(buf) : buf[i] = <<"rnd", buf[1][2], i>>

Fp(buf) == IF IsRandom(buf) THEN <<"rnd", buf[1][2], Len(buf)>> ELSE <<"raw", buf>>

\* --------------------------------------------------- OS secret store, base64
\* newKey.toString('base64')
toBase64(buf) == <<"b64", buf>>

\* Buffer.from(base64Key, 'base64'): never throws
fromBase64(str) == IF str[1] = "b64" THEN str[2] ELSE <<>>

\* safeStorage.encryptString(keyString)
encryptString(str) == <<"wrapped", str>>

\* safeStorage.decryptString(encryptedKey): the string, or throws on a blob
\* the secret store did not produce
decryptString(blob) ==
    IF blob[1] = "wrapped" THEN [ok |-> TRUE, str |-> blob[2]]
    ELSE [ok |-> FALSE, str |-> <<"b64", <<>>>>]

\* ------------------------------------------------------------------ JSON
\* The payloads the renderer stores: CredentialRecord, passphrase optional
Records ==
    {[certificatePath |-> "/a.p12", passphrase |-> "pw"],
     [certificatePath |-> "/b.p12", passphrase |-> "pw"],
     [certificatePath |-> "/a.p12", passphrase |-> Undefined]}

\* faulty variant: the value of every member is written as the empty string
JSONmember_blank(k, v) == IF v = Undefined THEN <<>> ELSE <<k, "">>

\* one "key":value member, dropped when the value is undefined
JSONmember(k, v) == IF v = Undefined THEN <<>> ELSE <<k, v>>

\* JSON.stringify(jsonData): the text, one token per element
JSONstringify(data) ==
    <<"{">> \o JSONmember("certificatePath", data.certificatePath)
           \o JSONmember("passphrase", data.passphrase) \o <<"}">>

\* reading property k of the parsed object: undefined when the key is absent
JSONproperty(members, k) ==
    IF \E i \in 1..Len(members) : i % 2 = 1 /\ members[i] = k
    THEN members[(CHOOSE i \in 1..Len(members) : i % 2 = 1 /\ members[i] = k) + 1]
    ELSE Undefined

\* JSON.parse(text): the object, or throws SyntaxError
JSONparse(text) ==
    LET n == Len(text)
        members == SubSeq(text, 2, n - 1)
        wellFormed ==
            /\ n >= 2
            /\ text[1] = "{"
            /\ text[n] = "}"
            /\ (n - 2) % 2 = 0
            /\ \A i \in 1..(n - 2) :
                  i % 2 = 1 => members[i] \in {"certificatePath", "passphrase"}
    IN  IF wellFormed
        THEN [ok |-> TRUE,
              value |-> [certificatePath |-> JSONproperty(members, "certificatePath"),
                         passphrase |-> JSONproperty(members, "passphrase")]]
        ELSE [ok |-> FALSE,
              value |-> [certificatePath |-> Undefined, passphrase |-> Undefined]]

\* cipher.update(jsonStr, 'utf8'): the text as bytes
utf8Encode(text) == [i \in 1..Len(text) |-> <<"chr", text[i]>>]

\* decrypted.toString('utf8'): bytes that are no text decode to U+FFFD
utf8Decode(bytes) ==
    [i \in 1..Len(bytes) |-> IF bytes[i][1] = "chr" THEN bytes[i][2] ELSE "\\uFFFD"]

\* ------------------------------------------------------------ AES-256-GCM
\* cipher.update / cipher.final: counter mode, byte i depends on key, iv, i
GcmEncrypt(key, iv, plain) ==
    [i \in 1..Len(plain) |-> <<"enc", Fp(key), Fp(iv), i, plain[i]>>]

\* decipher.update: the inverse under the same key and iv, noise otherwise
GcmDecrypt(key, iv, cipher) ==
    [i \in 1..Len(cipher) |->
        IF /\ cipher[i][1] = "enc"
           /\ cipher[i][2] = Fp(key)
           /\ cipher[i][3] = Fp(iv)
           /\ cipher[i][4] = i
        THEN cipher[i][5]
        ELSE <<"noise", i>>]

\* a compact name of a ciphertext inside a symbolic tag: injective
IsCipherOf(cipher, k, v) ==
    \A i \in 1..Len(cipher) :
        /\ cipher[i][1] = "enc"
        /\ cipher[i][2] = k
        /\ cipher[i][3] = v
        /\ cipher[i][4] = i

FpCipher(cipher) ==
    IF Len(cipher) > 0 /\ cipher[1][1] = "enc"
          /\ IsCipherOf(cipher, cipher[1][2], cipher[1][3])
    THEN <<"enc", cipher[1][2], cipher[1][3],
           [i \in 1..Len(cipher) |-> cipher[i][5]]>>
    ELSE <<"raw", cipher>>

\* cipher.getAuthTag(): 16 bytes binding key, iv and ciphertext
GcmTag(key, iv, cipher) ==
    [i \in 1..GcmTagLen |-> <<"tag", Fp(key), Fp(iv), FpCipher(cipher), i>>]

\* the tag lengths decipher.setAuthTag accepts for GCM
GcmValidTagLens == {4, 8, 12, 13, 14, 15, 16}

\* faulty variant: the nonce is 12 bytes long
encryptData_nonce12(masterKey, jsonData, ivId) ==
    LET iv == randomBytes(ivId, 12)
        jsonStr == JSONstringify(jsonData)
        encrypted == GcmEncrypt(masterKey, iv, utf8Encode(jsonStr))
        authTag == GcmTag(masterKey, iv, encrypted)
    IN  iv \o authTag \o encrypted

\* faulty variant: the nonce is drawn once and used by every call
encryptData_fixedIv(masterKey, jsonData, ivId) ==
    LET iv == randomBytes(0, IvLen)
        jsonStr == JSONstringify(jsonData)
        encrypted == GcmEncrypt(masterKey, iv, utf8Encode(jsonStr))
        authTag == GcmTag(masterKey, iv, encrypted)
    IN  iv \o authTag \o encrypted

\* encryptData(masterKey, jsonData), ivId the randomBytes draw it makes
encryptData(masterKey, jsonData, ivId) ==
    LET iv == randomBytes(ivId, IvLen)
        jsonStr == JSONstringify(jsonData)
        encrypted == GcmEncrypt(masterKey, iv, utf8Encode(jsonStr))
        authTag == GcmTag(masterKey, iv, encrypted)
    IN  iv \o authTag \o encrypted

\* faulty variant: the tag is read from the front and the nonce after it
decryptData_tagFirst(masterKey, fileBuffer) ==
    LET authTag == subarray(fileBuffer, 0, DecIvEnd)
        iv == subarray(fileBuffer, DecIvEnd, DecTagEnd)
        encrypted == subarray(fileBuffer, DecTagEnd, Len(fileBuffer))
        thrown == [ok |-> FALSE,
                   value |-> [certificatePath |-> Undefined, passphrase |-> Undefined]]
    IN  IF Len(iv) = 0 THEN thrown
        ELSE IF Len(authTag) \notin GcmValidTagLens THEN thrown
        ELSE IF authTag # SubSeq(GcmTag(masterKey, iv, encrypted), 1, Len(authTag))
             THEN thrown
        ELSE JSONparse(utf8Decode(GcmDecrypt(masterKey, iv, encrypted)))

\* faulty variant: decipher.final is never called, the tag is not compared
decryptData_noFinal(masterKey, fileBuffer) ==
    LET iv == subarray(fileBuffer, 0, DecIvEnd)
        authTag == subarray(fileBuffer, DecIvEnd, DecTagEnd)
        encrypted == subarray(fileBuffer, DecTagEnd, Len(fileBuffer))
        thrown == [ok |-> FALSE,
                   value |-> [certificatePath |-> Undefined, passphrase |-> Undefined]]
    IN  IF Len(iv) = 0 THEN thrown
        ELSE IF Len(authTag) \notin GcmValidTagLens THEN thrown
        ELSE JSONparse(utf8Decode(GcmDecrypt(masterKey, iv, encrypted)))

\* decryptData(masterKey, fileBuffer): the parsed object, or throws
decryptData(masterKey, fileBuffer) ==
    LET iv == subarray(fileBuffer, 0, DecIvEnd)
        authTag == subarray(fileBuffer, DecIvEnd, DecTagEnd)
        encrypted == subarray(fileBuffer, DecTagEnd, Len(fileBuffer))
        thrown == [ok |-> FALSE,
                   value |-> [certificatePath |-> Undefined, passphrase |-> Undefined]]
    IN  IF Len(iv) = 0 THEN thrown                          \* createDecipheriv
        ELSE IF Len(authTag) \notin GcmValidTagLens THEN thrown   \* setAuthTag
        ELSE IF authTag # SubSeq(GcmTag(masterKey, iv, encrypted), 1, Len(authTag))
             THEN thrown                                    \* decipher.final
        ELSE JSONparse(utf8Decode(GcmDecrypt(masterKey, iv, encrypted)))

\* ------------------------------------------------------------ master key
\* faulty variant: the length check compares with the length of the base64 text
ReadStoredKey_textLength(kf) == [ok |-> FALSE, key |-> <<>>]

\* lines 55-65: the key the wrapped-key file holds, if it holds a good one
ReadStoredKey(kf) ==
    IF kf = NoFile THEN [ok |-> FALSE, key |-> <<>>]
    ELSE LET dec == decryptString(kf)
             keyBuffer == fromBase64(dec.str)
         IN  IF ~dec.ok THEN [ok |-> FALSE, key |-> <<>>]
             ELSE IF Len(keyBuffer) # KeyLen THEN [ok |-> FALSE, key |-> <<>>]
             ELSE [ok |-> TRUE, key |-> keyBuffer]

\* faulty variant: the new key is returned but never written to the wrapped-key file
getOrGenerateMasterKey_notPersisted(available, kf, rand) ==
    IF ~available THEN [ok |-> FALSE, key |-> <<>>, keyFile |-> kf, rand |-> rand]
    ELSE IF ReadStoredKey(kf).ok
         THEN [ok |-> TRUE, key |-> ReadStoredKey(kf).key, keyFile |-> kf, rand |-> rand]
         ELSE [ok |-> TRUE, key |-> randomBytes(rand + 1, KeyLen), keyFile |-> kf,
               rand |-> rand + 1]

\* faulty variant: the availability of the secret store is not checked first
getOrGenerateMasterKey_unchecked(available, kf, rand) ==
    IF ReadStoredKey(kf).ok
    THEN [ok |-> available, key |-> ReadStoredKey(kf).key, keyFile |-> kf, rand |-> rand]
    ELSE [ok |-> available, key |-> randomBytes(rand + 1, KeyLen),
          keyFile |-> encryptString(toBase64(randomBytes(rand + 1, KeyLen))),
          rand |-> rand + 1]

\* faulty variant: a stored key is never reused, every call generates and persists one
getOrGenerateMasterKey_alwaysNew(available, kf, rand) ==
    IF ~available THEN [ok |-> FALSE, key |-> <<>>, keyFile |-> kf, rand |-> rand]
    ELSE [ok |-> TRUE, key |-> randomBytes(rand + 1, KeyLen),
          keyFile |-> encryptString(toBase64(randomBytes(rand + 1, KeyLen))),
          rand |-> rand + 1]

\* getOrGenerateMasterKey(): the key (ok) or null (~ok), the wrapped-key file
\* and the number of random draws afterwards
getOrGenerateMasterKey(available, kf, rand) ==
    IF ~available THEN [ok |-> FALSE, key |-> <<>>, keyFile |-> kf, rand |-> rand]
    ELSE LET stored == ReadStoredKey(kf)
             newKey == randomBytes(rand + 1, KeyLen)
         IN  IF stored.ok
             THEN [ok |-> TRUE, key |-> stored.key, keyFile |-> kf, rand |-> rand]
             ELSE [ok |-> TRUE, key |-> newKey,
                   keyFile |-> encryptString(toBase64(newKey)), rand |-> rand + 1]

\* ================================================================= state
VARIABLES
    encryptionAvailable,  \* safeStorage.isEncryptionAvailable()
    keyFile,              \* userData/master.key.enc
    dataFile,             \* userData/user-data.bin
    nextRand,             \* crypto.randomBytes draws made so far
    vaultReply,           \* what the last auth:* handler did and returned
    keyCalls,             \* history: the last two getOrGenerateMasterKey calls,
                          \*          each key by its name Fp(key)
    lastSaved,            \* history: argument of the last save, NoRecord after clear
    corrupted,            \* history: a vault or key file was altered from outside
    outage,               \* history: the secret store has been unavailable
    disk,                 \* the documents and certificate bundles: path -> content
    req,                  \* the sign-pdf invocations: slot -> position,
                          \*          arguments, locals, reply
    cipher                \* encryptData and decryptData on their own: the
                          \*          calls made, the envelope at hand, the result

vaultVars == <<encryptionAvailable, keyFile, dataFile, nextRand, vaultReply,
               keyCalls, lastSaved, corrupted, outage>>
signVars == <<disk, req>>
vars == <<encryptionAvailable, keyFile, dataFile, nextRand, vaultReply,
          keyCalls, lastSaved, corrupted, outage, disk, req, cipher>>

NoCall == [made |-> FALSE, ok |-> FALSE, key |-> Fp(<<>>), fresh |-> FALSE]
NoData == [certificatePath |-> Undefined, passphrase |-> Undefined]

VaultInit ==
    /\ encryptionAvailable = TRUE
    /\ keyFile = NoFile
    /\ dataFile = NoFile
    /\ nextRand = 0
    /\ vaultReply = [op |-> "none", ret |-> Null, branch |-> "none", data |-> NoData]
    /\ keyCalls = [prev |-> NoCall, last |-> NoCall, touched |-> FALSE,
                   touchedBetween |-> FALSE]
    /\ lastSaved = NoRecord
    /\ corrupted = FALSE
    /\ outage = FALSE

\* history of the calls of getOrGenerateMasterKey, g the result of a new one
RecordKeyCall(g, kf) ==
    [prev |-> keyCalls.last,
     last |-> [made |-> TRUE, ok |-> g.ok, key |-> Fp(g.key), fresh |-> g.keyFile # kf],
     touched |-> FALSE,
     touchedBetween |-> keyCalls.touched]

\* ------------------------------------------------------- auth:* handlers
\* faulty variant: the reply is true also when no key was obtained
SaveCredentials_alwaysTrue(data) ==
    LET g == getOrGenerateMasterKey(encryptionAvailable, keyFile, nextRand)
    IN  /\ g.rand + 1 <= MaxRand
        /\ keyFile' = g.keyFile
        /\ keyCalls' = RecordKeyCall(g, keyFile)
        /\ lastSaved' = <<"record", data>>
        /\ IF ~g.ok
           THEN /\ vaultReply' = [op |-> "save", ret |-> <<"true">>,
                                  branch |-> "nokey", data |-> data]
                /\ UNCHANGED <<dataFile, nextRand>>
           ELSE /\ dataFile' = encryptData(g.key, data, g.rand + 1)
                /\ nextRand' = g.rand + 1
                /\ vaultReply' = [op |-> "save", ret |-> <<"true">>,
                                  branch |-> "ok", data |-> data]
        /\ UNCHANGED <<encryptionAvailable, corrupted, outage>>
        /\ UNCHANGED signVars
        /\ UNCHANGED cipher

\* ipcMain.handle('auth:save-credentials'): no await, one step
SaveCredentials(data) ==
    LET g == getOrGenerateMasterKey(encryptionAvailable, keyFile, nextRand)
    IN  /\ g.rand + 1 <= MaxRand
        /\ keyFile' = g.keyFile
        /\ keyCalls' = RecordKeyCall(g, keyFile)
        /\ lastSaved' = <<"record", data>>
        /\ IF ~g.ok
           THEN /\ vaultReply' = [op |-> "save", ret |-> <<"false">>,
                                  branch |-> "nokey", data |-> data]
                /\ UNCHANGED <<dataFile, nextRand>>
           ELSE /\ dataFile' = encryptData(g.key, data, g.rand + 1)
                /\ nextRand' = g.rand + 1
                /\ vaultReply' = [op |-> "save", ret |-> <<"true">>,
                                  branch |-> "ok", data |-> data]
        /\ UNCHANGED <<encryptionAvailable, corrupted, outage>>
        /\ UNCHANGED signVars
        /\ UNCHANGED cipher

\* faulty variant: the key is obtained before the vault file is looked for
LoadCredentials_keyFirst ==
    /\ UNCHANGED signVars
    /\ UNCHANGED cipher
    /\ LET g == getOrGenerateMasterKey(encryptionAvailable, keyFile, nextRand)
           d == decryptData(g.key, dataFile)
       IN  /\ g.rand <= MaxRand
           /\ keyFile' = g.keyFile
           /\ nextRand' = g.rand
           /\ keyCalls' = RecordKeyCall(g, keyFile)
           /\ vaultReply' =
                IF dataFile = NoFile THEN [op |-> "load", ret |-> Null,
                                           branch |-> "nofile", data |-> NoData]
                ELSE IF ~g.ok THEN [op |-> "load", ret |-> Null, branch |-> "nokey",
                                    data |-> NoData]
                ELSE IF ~d.ok THEN [op |-> "load", ret |-> Null,
                                    branch |-> "catch", data |-> NoData]
                ELSE [op |-> "load", ret |-> <<"value", d.value>>,
                      branch |-> "ok", data |-> NoData]
           /\ UNCHANGED <<encryptionAvailable, dataFile, lastSaved, corrupted,
                          outage>>

\* ipcMain.handle('auth:load-credentials'): no await, one step
LoadCredentials ==
    /\ UNCHANGED signVars
    /\ UNCHANGED cipher
    /\ IF dataFile = NoFile
       THEN /\ vaultReply' = [op |-> "load", ret |-> Null, branch |-> "nofile",
                              data |-> NoData]
            /\ UNCHANGED <<encryptionAvailable, keyFile, dataFile, nextRand,
                           keyCalls, lastSaved, corrupted, outage>>
       ELSE LET g == getOrGenerateMasterKey(encryptionAvailable, keyFile, nextRand)
                d == decryptData(g.key, dataFile)
            IN  /\ g.rand <= MaxRand
                /\ keyFile' = g.keyFile
                /\ nextRand' = g.rand
                /\ keyCalls' = RecordKeyCall(g, keyFile)
                /\ vaultReply' =
                     IF ~g.ok THEN [op |-> "load", ret |-> Null, branch |-> "nokey",
                                    data |-> NoData]
                     ELSE IF ~d.ok THEN [op |-> "load", ret |-> Null,
                                         branch |-> "catch", data |-> NoData]
                     ELSE [op |-> "load", ret |-> <<"value", d.value>>,
                           branch |-> "ok", data |-> NoData]
                /\ UNCHANGED <<encryptionAvailable, dataFile, lastSaved, corrupted,
                               outage>>

\* faulty variant: unlinkSync without the existsSync test throws when no file exists
ClearCredentials_noExistsTest ==
    /\ dataFile' = NoFile
    /\ vaultReply' = [op |-> "clear",
                      ret |-> IF dataFile = NoFile THEN <<"throw">> ELSE <<"true">>,
                      branch |-> "ok", data |-> NoData]
    /\ lastSaved' = NoRecord
    /\ UNCHANGED <<encryptionAvailable, keyFile, nextRand, keyCalls, corrupted, outage>>
    /\ UNCHANGED signVars
    /\ UNCHANGED cipher

\* ipcMain.handle('auth:clear-credentials'): no await, one step
ClearCredentials ==
    /\ dataFile' = NoFile
    /\ vaultReply' = [op |-> "clear", ret |-> <<"true">>, branch |-> "ok",
                      data |-> NoData]
    /\ lastSaved' = NoRecord
    /\ UNCHANGED <<encryptionAvailable, keyFile, nextRand, keyCalls, corrupted, outage>>
    /\ UNCHANGED signVars
    /\ UNCHANGED cipher

\* ------------------------------------------------------------ environment
\* the OS secret store comes and goes with the session
SetEncryptionAvailable(b) ==
    /\ encryptionAvailable # b
    /\ encryptionAvailable' = b
    /\ outage' = (outage \/ ~b)
    /\ UNCHANGED <<keyFile, dataFile, nextRand, vaultReply, keyCalls, lastSaved,
                   corrupted>>
    /\ UNCHANGED signVars
    /\ UNCHANGED cipher

\* what may be found in place of a good wrapped key: a blob that does not
\* unwrap, a key of the wrong length, no file
BadKeyFiles(kf) ==
    {Garbage, NoFile} \cup
    (IF ReadStoredKey(kf).ok
     THEN {encryptString(toBase64(SubSeq(ReadStoredKey(kf).key, 1, KeyLen \div 2)))}
     ELSE {})

CorruptKeyFile(bad) ==
    /\ ReadStoredKey(keyFile).ok
    /\ keyFile' = bad
    /\ corrupted' = TRUE
    /\ keyCalls' = [keyCalls EXCEPT !.touched = TRUE]
    /\ UNCHANGED <<encryptionAvailable, dataFile, nextRand, vaultReply, lastSaved,
                   outage>>
    /\ UNCHANGED signVars
    /\ UNCHANGED cipher

\* a vault file as encryptData wrote it
Intact(buf) ==
    /\ Len(buf) > DecTagEnd
    /\ \A i \in 1..Len(buf) : buf[i][1] # "flip"

\* bit rot: one byte of an intact vault file changes, in the nonce, in the
\* tag or in the ciphertext
Flip(byte) == <<"flip", byte>>
FlipPositions == {1, 17, 33}

FlipDataFile(pos) ==
    /\ dataFile # NoFile
    /\ pos <= Len(dataFile)
    /\ Intact(dataFile)
    /\ dataFile' = [dataFile EXCEPT ![pos] = Flip(@)]
    /\ corrupted' = TRUE
    /\ UNCHANGED <<encryptionAvailable, keyFile, nextRand, vaultReply, keyCalls,
                   lastSaved, outage>>
    /\ UNCHANGED signVars
    /\ UNCHANGED cipher

\* an intact vault file loses its tail
TruncateLens == {0, 28}

TruncateDataFile(n) ==
    /\ dataFile # NoFile
    /\ n < Len(dataFile)
    /\ Intact(dataFile)
    /\ dataFile' = SubSeq(dataFile, 1, n)
    /\ corrupted' = TRUE
    /\ UNCHANGED <<encryptionAvailable, keyFile, nextRand, vaultReply, keyCalls,
                   lastSaved, outage>>
    /\ UNCHANGED signVars
    /\ UNCHANGED cipher

VaultNext ==
    \/ \E data \in Records : SaveCredentials(data)
    \/ LoadCredentials
    \/ ClearCredentials
    \/ \E b \in BOOLEAN : SetEncryptionAvailable(b)
    \/ \E bad \in BadKeyFiles(keyFile) : CorruptKeyFile(bad)
    \/ \E pos \in FlipPositions : FlipDataFile(pos)
    \/ \E n \in TruncateLens : TruncateDataFile(n)


\* ============================================================== sign-pdf
\* A path is the sequence of its characters.
DotPdf == <<".", "p", "d", "f">>
SignedDotPdf == <<"_", "s", "i", "g", "n", "e", "d", ".", "p", "d", "f">>

\* the i flag of the regular expression
toLowerCase(c) ==
    CASE c = "P" -> "p" [] c = "D" -> "d" [] c = "F" -> "f" [] OTHER -> c

\* /(\.pdf)$/i matches the path
EndsWithDotPdf(path) ==
    /\ Len(path) >= Len(DotPdf)
    /\ \A i \in 1..Len(DotPdf) :
          toLowerCase(path[Len(path) - Len(DotPdf) + i]) = DotPdf[i]

\* filePath.replace(/(\.pdf)$/i, '_signed.pdf')
outputPath(filePath) ==
    IF EndsWithDotPdf(filePath)
    THEN SubSeq(filePath, 1, Len(filePath) - Len(DotPdf)) \o SignedDotPdf
    ELSE filePath

\* signatureLength: 16192, the bytes plainAddPlaceholder reserves
SignatureLength == 16192

\* the documents and certificate bundles of the file system
APdf == <<"a", ".", "p", "d", "f">>
AUpper == <<"a", ".", "P", "D", "F">>
ABare == <<"a">>
TextPdf == <<"t", ".", "p", "d", "f">>
MissingPdf == <<"n", ".", "p", "d", "f">>
GoodCert == <<"c", ".", "p", "1", "2">>
LongCert == <<"l", ".", "p", "1", "2">>
JunkCert == <<"x", ".", "p", "1", "2">>
MissingCert == <<"m", ".", "p", "1", "2">>

DocPaths == {APdf, AUpper, ABare, TextPdf, MissingPdf}
CertPaths == {GoodCert, LongCert, JunkCert, MissingCert}
DiskPaths == DocPaths \cup {outputPath(p) : p \in DocPaths} \cup CertPaths

\* file contents: a PDF with its page count and the signatures applied to it,
\* a PKCS#12 bundle with its passphrase and the size of the CMS it yields
Pdf(pages, sigs) == <<"pdf", pages, sigs>>
P12(passphrase, cmsLen) == <<"p12", passphrase, cmsLen>>
NotAPdf == <<"text">>
NotAP12 == <<"junk">>

IsPdf(content) == content[1] = "pdf"

\* error.message of what each step throws
ENOENT == "ENOENT: no such file or directory"
EParse == "Failed to parse PDF document"
EPage == "Cannot read properties of undefined (reading 'getSize')"
EEncode == "WinAnsi cannot encode"
ECertNotFound == "Certificate file not found"
EBundle == "Too few bytes to parse DER"
EPassphrase == "PKCS#12 MAC could not be verified. Invalid password?"
ETooLong == "Signature exceeds placeholder length"

\* StandardFonts.Helvetica encodes WinAnsi only
Encodable(text) == text # "Dvo\\u0159ak"

\* the requests: a valid one, every request that differs from it in one
\* field (in the rectangle: in both its sides), and one with two faults
ValidArgs ==
    [filePath |-> APdf, certPath |-> GoodCert, password |-> "test",
     pageIndex |-> 0, width |-> 200, height |-> 70, text |-> "Signature"]

SignArgs ==
    {[ValidArgs EXCEPT !.filePath = p] : p \in DocPaths}
    \cup {[ValidArgs EXCEPT !.certPath = c] : c \in CertPaths}
    \cup {[ValidArgs EXCEPT !.password = w] : w \in {"test", "bad"}}
    \cup {[ValidArgs EXCEPT !.pageIndex = i] : i \in {-1, 0, 1}}
    \cup {[ValidArgs EXCEPT !.text = t] : t \in {"Signature", "Dvo\\u0159ak"}}
    \cup {[ValidArgs EXCEPT !.width = 0, !.height = -1]}
    \cup {[ValidArgs EXCEPT !.certPath = MissingCert, !.pageIndex = 1]}

Slots == 1..MaxReqs

NoResult == [st |-> "none", path |-> <<>>, error |-> ""]
NoPlaceholder == [spans |-> <<>>, byteRange |-> <<>>, saved |-> 0, added |-> 0]
IdleReq == [pc |-> "idle", args |-> ValidArgs, pdfBuffer |-> NoFile,
            p12Buffer |-> NoFile, placeholder |-> NoPlaceholder,
            trail |-> <<>>, result |-> NoResult]

SignInit ==
    /\ disk = [p \in DiskPaths |->
                 CASE p \in {APdf, ABare} -> Pdf(1, <<>>)
                   [] p = AUpper -> Pdf(2, <<>>)
                   [] p = TextPdf -> NotAPdf
                   [] p = GoodCert -> P12("test", SignatureLength \div 2)
                   [] p = LongCert -> P12("test", SignatureLength + 1)
                   [] p = JunkCert -> NotAP12
                   [] OTHER -> NoFile]
    /\ req = [r \in Slots |-> IdleReq]

\* faulty variant: the catch reports a generic failure
CatchResult_generic(message) == [st |-> "fail", path |-> <<>>, error |-> "Unknown error"]

\* faulty variant: the catch passes the error on to the caller
CatchResult_rethrow(message) == [st |-> "throw", path |-> <<>>, error |-> message]

\* lines 228-231: catch (error) -> { success: false, error: message }
CatchResult(message) ==
    [st |-> "fail", path |-> <<>>,
     error |-> IF message = "" THEN "Unknown error" ELSE message]

\* line 227: { success: true, path: outputPath }
SuccessResult(path) == [st |-> "ok", path |-> path, error |-> ""]

\* ------------------------------------------------ the signature placeholder
\* The document as named spans <<name, length>>, lengths in bytes.

\* the length of what pdfDoc.save resolves with: a stand-in that grows with
\* the signatures the document holds and with the text drawn
SavedLength(pdfBuffer, args) ==
    1000 * pdfBuffer[2] + 700 * Len(pdfBuffer[3])
        + (IF args.text = "Signature" THEN 90 ELSE 160)

RECURSIVE SpansLength(_)
SpansLength(spans) ==
    IF spans = <<>> THEN 0 ELSE Head(spans)[2] + SpansLength(Tail(spans))

\* pdf.indexOf: the offset at which the span of this name begins
OffsetOf(spans, name) ==
    LET i == CHOOSE j \in 1..Len(spans) : spans[j][1] = name
    IN  SpansLength(SubSeq(spans, 1, i - 1))

LengthOf(spans, name) ==
    spans[CHOOSE j \in 1..Len(spans) : spans[j][1] = name][2]

RECURSIVE Digits(_)
Digits(n) == IF n < 10 THEN 1 ELSE 1 + Digits(n \div 10)

\* "/ByteRange [0 /********** /********** /**********]"
ByteRangePlaceholderLength == 12 + 1 + 3 * (1 + 11) + 1

\* "/ByteRange [a b c d]"
ByteRangeTextLength(byteRange) ==
    12 + Digits(byteRange[1]) + (1 + Digits(byteRange[2]))
       + (1 + Digits(byteRange[3])) + (1 + Digits(byteRange[4])) + 1

\* plainAddPlaceholder: the signature dictionary is appended, with the
\* /ByteRange placeholder and a slot of signatureLength zero bytes in hex
\* between < and >, then the widget, the new cross-reference table and trailer
plainAddPlaceholder(savedLength, signatureLength) ==
    << <<"document", savedLength>>,
       <<"signature dictionary", 60>>,
       <<"/ByteRange", ByteRangePlaceholderLength>>,
       <<"/Contents", 10>>,
       <<"slot", 2 * signatureLength + 2>>,
       <<"metadata", 120>>,
       <<"widget, xref, trailer", 400>> >>

\* faulty variant: the two brackets of the slot are left out of its length
SignPdfByteRange_noBrackets(spans) ==
    LET placeholderPos == OffsetOf(spans, "slot")
        placeholderLength == LengthOf(spans, "slot") - 2
    IN  <<0, placeholderPos, placeholderPos + placeholderLength,
          SpansLength(spans) - (placeholderPos + placeholderLength)>>

\* signerPDFObj.sign, before the signer is called: the actual byte range
SignPdfByteRange(spans) ==
    LET placeholderPos == OffsetOf(spans, "slot")
        placeholderLengthWithBrackets == LengthOf(spans, "slot")
    IN  <<0, placeholderPos, placeholderPos + placeholderLengthWithBrackets,
          SpansLength(spans) - (placeholderPos + placeholderLengthWithBrackets)>>

\* the placeholder of /ByteRange is replaced by the actual one, padded with
\* spaces to the length of the placeholder
PatchByteRange(spans, byteRange) ==
    LET text == ByteRangeTextLength(byteRange)
        padding == ByteRangePlaceholderLength - text
    IN  [i \in 1..Len(spans) |->
            IF spans[i][1] = "/ByteRange" THEN <<"/ByteRange", text + padding>>
            ELSE spans[i]]

\* lines 200-210 and the first part of 222: what the run holds when the
\* signer is called
Placeholder(pdfBuffer, args) ==
    LET saved == SavedLength(pdfBuffer, args)
        added == plainAddPlaceholder(saved, SignatureLength)
        byteRange == SignPdfByteRange(added)
    IN  [spans |-> PatchByteRange(added, byteRange), byteRange |-> byteRange,
         saved |-> saved, added |-> SpansLength(added)]

\* the catch is reached from position r after the states `passed`
FailAfter(r, passed, message) ==
    req' = [req EXCEPT ![r] = [IdleReq EXCEPT !.pc = "done", !.args = req[r].args,
                                              !.trail = req[r].trail \o passed
                                                           \o <<"Failed">>,
                                              !.result = CatchResult(message)]]

Fail(r, message) == FailAfter(r, <<>>, message)

\* line 212: the test that guards the read of the bundle
CertError_noExistsTest(content) == IF content = NoFile THEN ENOENT ELSE ""

CertError(content) == IF content = NoFile THEN ECertNotFound ELSE ""

\* faulty variant: the bundle is read before the placeholder is added
AfterSaveStates_certFirst == <<"CertificateLoaded", "PlaceholderReserved">>

\* lines 203-213: what a run passes between pdfDoc.save and the call of sign
AfterSaveStates == <<"PlaceholderReserved", "CertificateLoaded">>

\* line 222: what the call of sign passes before it settles: the bundle is
\* opened with the passphrase first, the digest is taken while the CMS is
\* built, the length of the CMS is tested last
SignStates(error) ==
    IF error \in {EBundle, EPassphrase} THEN <<>>
    ELSE IF error = ETooLong THEN <<"DigestComputed">>
    ELSE <<"DigestComputed", "Signed">>

\* signerPDFObj.sign(pdfWithPlaceholder, signer): the error it rejects with,
\* "" when it resolves
\* faulty variant: a wrong passphrase is reported as a bundle that cannot be read
SignError_bundleOnly(p12Buffer, password) ==
    IF p12Buffer[1] # "p12" \/ p12Buffer[2] # password THEN EBundle
    ELSE IF p12Buffer[3] > SignatureLength THEN ETooLong
    ELSE ""

SignError(p12Buffer, password) ==
    IF p12Buffer[1] # "p12" THEN EBundle
    ELSE IF p12Buffer[2] # password THEN EPassphrase
    ELSE IF p12Buffer[3] > SignatureLength THEN ETooLong
    ELSE ""

\* the bytes signerPDFObj.sign resolves with
SignedPdf(pdfBuffer, args) ==
    Pdf(pdfBuffer[2],
        Append(pdfBuffer[3], <<args.pageIndex, args.text, args.certPath>>))

\* lines 137-154: the invocation starts, reads the document, awaits the parse
SignStart(r, args) ==
    /\ req[r].pc = "idle"
    /\ IsPdf(disk[args.filePath]) => Len(disk[args.filePath][3]) < MaxSigs
    /\ IF disk[args.filePath] = NoFile
       THEN req' = [req EXCEPT ![r] = [IdleReq EXCEPT !.pc = "done", !.args = args,
                                          !.trail = <<"Failed">>,
                                          !.result = CatchResult(ENOENT)]]
       ELSE req' = [req EXCEPT ![r] = [IdleReq EXCEPT !.pc = "load", !.args = args,
                                          !.pdfBuffer = disk[args.filePath]]]
    /\ UNCHANGED disk
    /\ UNCHANGED vaultVars
    /\ UNCHANGED cipher

\* lines 154-161: the parse settles; page lookup; awaits embedFont
AfterLoad(r) ==
    /\ req[r].pc = "load"
    /\ IF ~IsPdf(req[r].pdfBuffer) THEN Fail(r, EParse)
       ELSE IF req[r].args.pageIndex \notin 0..(req[r].pdfBuffer[2] - 1)
            THEN Fail(r, EPage)
       ELSE req' = [req EXCEPT ![r].pc = "embedFont"]
    /\ UNCHANGED disk
    /\ UNCHANGED vaultVars
    /\ UNCHANGED cipher

\* lines 161-200: the font is embedded; the text is drawn; awaits save
AfterEmbedFont(r) ==
    /\ req[r].pc = "embedFont"
    /\ IF ~Encodable(req[r].args.text) THEN Fail(r, EEncode)
       ELSE req' = [req EXCEPT ![r].pc = "save",
                               ![r].trail = Append(@, "AnnotationApplied")]
    /\ UNCHANGED disk
    /\ UNCHANGED vaultVars
    /\ UNCHANGED cipher

\* lines 200-222: the placeholder is added; the bundle is read; awaits sign
AfterSave(r) ==
    /\ req[r].pc = "save"
    /\ IF CertError(disk[req[r].args.certPath]) # ""
       THEN FailAfter(r, SubSeq(AfterSaveStates, 1, 1),
                      CertError(disk[req[r].args.certPath]))
       ELSE req' = [req EXCEPT ![r].pc = "sign",
                               ![r].trail = @ \o AfterSaveStates,
                               ![r].placeholder =
                                   Placeholder(req[r].pdfBuffer, req[r].args),
                               ![r].p12Buffer = disk[req[r].args.certPath]]
    /\ UNCHANGED disk
    /\ UNCHANGED vaultVars
    /\ UNCHANGED cipher

\* lines 222-231: signing settles; the output is written; the reply is made
AfterSign(r) ==
    /\ req[r].pc = "sign"
    /\ LET error == SignError(req[r].p12Buffer, req[r].args.password)
           out == outputPath(req[r].args.filePath)
       IN  IF error # ""
           THEN FailAfter(r, SignStates(error), error) /\ UNCHANGED disk
           ELSE /\ disk' = [disk EXCEPT ![out] = SignedPdf(req[r].pdfBuffer, req[r].args)]
                /\ req' = [req EXCEPT ![r] =
                             [IdleReq EXCEPT !.pc = "done", !.args = req[r].args,
                                             !.trail = req[r].trail \o SignStates(error)
                                                          \o <<"Written">>,
                                             !.result = SuccessResult(out)]]
    /\ UNCHANGED vaultVars
    /\ UNCHANGED cipher

\* the reply reaches the renderer; the slot is free again
SignReturn(r) ==
    /\ req[r].pc = "done"
    /\ req' = [req EXCEPT ![r] = IdleReq]
    /\ UNCHANGED disk
    /\ UNCHANGED vaultVars
    /\ UNCHANGED cipher

SignNext ==
    \/ \E r \in Slots, args \in SignArgs : SignStart(r, args)
    \/ \E r \in Slots : AfterLoad(r)
    \/ \E r \in Slots : AfterEmbedFont(r)
    \/ \E r \in Slots : AfterSave(r)
    \/ \E r \in Slots : AfterSign(r)
    \/ \E r \in Slots : SignReturn(r)


\* ======================================================= the whole program
\* The vault and the sign-pdf handler share no file and no variable.
\* ============================================ encryptData, decryptData
\* The two functions on their own: every key with every payload, every
\* envelope altered in every part, opened with every key.

\* the keys: the first MaxKeys draws of crypto.randomBytes(32)
CipherKeys == {randomBytes(id, KeyLen) : id \in 1..MaxKeys}

NoOut == [made |-> FALSE, key |-> <<>>, ok |-> FALSE, value |-> NoData]

CipherInit ==
    cipher = [rand |-> MaxKeys, log |-> <<>>, envelope |-> <<>>,
              damage |-> "none", out |-> NoOut]

\* encryptData(masterKey, jsonData) is called; the envelope is at hand
CipherEncrypt(masterKey, jsonData) ==
    /\ Len(cipher.log) < MaxEncrypts
    /\ LET envelope == encryptData(masterKey, jsonData, cipher.rand + 1)
       IN  cipher' = [rand |-> cipher.rand + 1,
                      log |-> Append(cipher.log,
                                     [key |-> masterKey, payload |-> jsonData,
                                      envelope |-> envelope]),
                      envelope |-> envelope, damage |-> "none", out |-> NoOut]
    /\ UNCHANGED vaultVars
    /\ UNCHANGED signVars

\* one byte of the envelope changes: in the nonce, the tag or the ciphertext
CipherFlip(pos) ==
    /\ cipher.log # <<>>
    /\ cipher.damage = "none"
    /\ pos <= Len(cipher.envelope)
    /\ cipher' = [cipher EXCEPT !.envelope = [@ EXCEPT ![pos] = Flip(@)],
                                !.damage = "flip", !.out = NoOut]
    /\ UNCHANGED vaultVars
    /\ UNCHANGED signVars

\* the envelope loses its tail: nothing is left, a part of the tag is left,
\* the nonce and the tag only are left, or the end of the ciphertext is lost
CutLens == {0, 20, 28, 32, 35}

CipherCut(n) ==
    /\ cipher.log # <<>>
    /\ cipher.damage = "none"
    /\ n < Len(cipher.envelope)
    /\ cipher' = [cipher EXCEPT !.envelope = SubSeq(@, 1, n),
                                !.damage = "cut", !.out = NoOut]
    /\ UNCHANGED vaultVars
    /\ UNCHANGED signVars

\* decryptData(masterKey, fileBuffer) is called on the envelope at hand
CipherDecrypt(masterKey) ==
    /\ cipher.log # <<>>
    /\ LET d == decryptData(masterKey, cipher.envelope)
       IN  cipher' = [cipher EXCEPT !.out = [made |-> TRUE, key |-> masterKey,
                                             ok |-> d.ok,
                                             value |-> IF d.ok THEN d.value ELSE NoData]]
    /\ UNCHANGED vaultVars
    /\ UNCHANGED signVars

CipherNext ==
    \/ \E masterKey \in CipherKeys, jsonData \in Records :
          CipherEncrypt(masterKey, jsonData)
    \/ \E pos \in FlipPositions : CipherFlip(pos)
    \/ \E n \in CutLens : CipherCut(n)
    \/ \E masterKey \in CipherKeys : CipherDecrypt(masterKey)

\* ================================================================ specs
Init == VaultInit /\ SignInit /\ CipherInit

Next == VaultNext \/ SignNext \/ CipherNext

Spec == Init /\ [][Next]_vars

\* the vault alone, the sign-pdf handler never invoked
VaultSpec == Init /\ [][VaultNext]_vars

\* the sign-pdf handler alone, the vault never used
SignSpec == Init /\ [][SignNext]_vars

\* encryptData and decryptData alone
CipherSpec == Init /\ [][CipherNext]_vars

\* ================================================================ claims
InFlight(r) == req[r].pc \in {"load", "embedFont", "save", "sign"}
Ends(r) == req[r].pc # "done" /\ req'[r].pc = "done"

\* C1: every sign-pdf run that succeeds has written to a path other than the
\* path of its input document, so the input file is never overwritten.
C1_OutputPathDiffers ==
    \A r \in Slots :
        (req[r].pc = "done" /\ req[r].result.st = "ok")
            => req[r].result.path # req[r].args.filePath

\* the errors that originate at each position of the handler
StepErrors(pc) ==
    CASE pc = "idle" -> {ENOENT}
      [] pc = "load" -> {EParse, EPage}
      [] pc = "embedFont" -> {EEncode}
      [] pc = "save" -> {ECertNotFound}
      [] pc = "sign" -> {EBundle, EPassphrase, ETooLong}
      [] OTHER -> {}

\* C3: a sign-pdf run that fails at any step replies with the error that
\* originated at that step and leaves every file as it was; a file changes
\* only in the last step of a run whose signing succeeded, and only the
\* output path of that run.
C3_FailureWritesNothing ==
    [][/\ \A r \in Slots :
             (Ends(r) /\ req'[r].result.st = "fail")
                 => /\ disk' = disk
                    /\ req'[r].result.error \in StepErrors(req[r].pc)
       /\ disk' # disk
             => \E r \in Slots :
                   /\ req[r].pc = "sign"
                   /\ Ends(r)
                   /\ req'[r].result.st = "ok"
                   /\ SignError(req[r].p12Buffer, req[r].args.password) = ""
                   /\ \A p \in DiskPaths :
                         p # outputPath(req[r].args.filePath) => disk'[p] = disk[p]
      ]_vars

\* a run failed at signing, on a wrong passphrase, and no output exists
C3_Witness ==
    \E r \in Slots :
        /\ req[r].pc = "done"
        /\ req[r].result = [st |-> "fail", path |-> <<>>, error |-> EPassphrase]
        /\ disk[outputPath(req[r].args.filePath)] = NoFile

\* C9: two sign-pdf runs for the same document are never in progress at the
\* same time.
C9_NoInterleaving ==
    \A r1, r2 \in Slots :
        (r1 # r2 /\ InFlight(r1) /\ InFlight(r2))
            => req[r1].args.filePath # req[r2].args.filePath

\* C2: with the secret store available throughout and no file altered from
\* outside, load returns the record of the most recent save, and null when
\* nothing was saved since the start or the last clear.
C2_LoadReturnsLastSaved ==
    (vaultReply.op = "load" /\ ~corrupted /\ ~outage)
        => vaultReply.ret =
              (IF lastSaved = NoRecord THEN Null ELSE <<"value", lastSaved[2]>>)

\* a load returned a record after at least two saves
C2_Witness ==
    /\ vaultReply.op = "load"
    /\ vaultReply.ret # Null
    /\ ~corrupted
    /\ ~outage
    /\ nextRand >= 3

\* the key the wrapped-key file holds after the step is one generated in it
KeyRegenerated ==
    /\ ReadStoredKey(keyFile').ok
    /\ ReadStoredKey(keyFile').key = randomBytes(nextRand + 1, KeyLen)
    /\ keyCalls'.last.ok
    /\ keyCalls'.last.key = Fp(randomBytes(nextRand + 1, KeyLen))

\* C4: with the secret store available, a save or load that finds a
\* wrapped-key file that does not yield a 32-byte key generates a key and
\* persists it; such a load over a saved vault file leaves the vault file in
\* place and returns null through its decryption-failure branch, never a
\* record.
C4_CorruptKeyRegenerates ==
    [][/\ (/\ LoadCredentials
           /\ encryptionAvailable
           /\ dataFile # NoFile
           /\ lastSaved # NoRecord
           /\ ~ReadStoredKey(keyFile).ok)
             => /\ KeyRegenerated
                /\ nextRand' = nextRand + 1
                /\ dataFile' = dataFile
                /\ vaultReply'.ret = Null
                /\ vaultReply'.branch = "catch"
       /\ (/\ \E data \in Records : SaveCredentials(data)
           /\ encryptionAvailable
           /\ ~ReadStoredKey(keyFile).ok)
             => KeyRegenerated
      ]_vars

\* a load regenerated the key after the wrapped-key file was corrupted
C4_Witness ==
    /\ vaultReply.op = "load"
    /\ vaultReply.branch = "catch"
    /\ keyCalls.last.fresh
    /\ keyCalls.touchedBetween
    /\ lastSaved # NoRecord
    /\ ReadStoredKey(keyFile).ok

\* C5: two consecutive calls of getOrGenerateMasterKey that both return a key,
\* with no change to the wrapped-key file between them, return the same key.
C5_SameKeyTwice ==
    (/\ keyCalls.prev.made /\ keyCalls.prev.ok
     /\ keyCalls.last.made /\ keyCalls.last.ok
     /\ ~keyCalls.touchedBetween)
        => keyCalls.last.key = keyCalls.prev.key

\* the first of the two calls created the key, the second unwrapped it
C5_Witness ==
    /\ keyCalls.prev.made /\ keyCalls.prev.ok /\ keyCalls.prev.fresh
    /\ keyCalls.last.made /\ keyCalls.last.ok /\ ~keyCalls.last.fresh
    /\ ~keyCalls.touchedBetween

\* C6: a save while the secret store is unavailable returns false and leaves
\* the vault file and the wrapped-key file as they were.
C6_UnavailableTouchesNothing ==
    [][((\E data \in Records : SaveCredentials(data)) /\ ~encryptionAvailable)
          => /\ vaultReply'.ret = <<"false">>
             /\ keyFile' = keyFile
             /\ dataFile' = dataFile
             /\ nextRand' = nextRand
      ]_vars

\* a save was refused while both files existed
C6_Witness ==
    /\ vaultReply.op = "save"
    /\ vaultReply.ret = <<"false">>
    /\ ~encryptionAvailable
    /\ keyFile # NoFile
    /\ dataFile # NoFile

\* C7: load returns null only when no vault file exists; a vault file that
\* cannot be decrypted gives an outcome the caller can tell from null.
C7_NullOnlyWithoutFile ==
    (vaultReply.op = "load" /\ vaultReply.ret = Null)
        => vaultReply.branch = "nofile"

\* C8: clear is enabled in every state; it returns true, removes the vault
\* file, leaves the wrapped-key file alone, and changes no file when the
\* vault file is already absent.
C8_ClearTotalIdempotent ==
    /\ [][ClearCredentials
             => /\ vaultReply'.ret = <<"true">>
                /\ dataFile' = NoFile
                /\ keyFile' = keyFile
                /\ (vaultReply.op = "clear" => UNCHANGED vaultVars)
         ]_vars
    /\ [](ENABLED ClearCredentials)

\* a clear ran with the secret store unavailable
C8_Witness ==
    /\ vaultReply.op = "clear"
    /\ dataFile = NoFile
    /\ keyFile # NoFile
    /\ ~encryptionAvailable
    /\ outage

\* C10: as long as no file was altered from outside, a vault file that exists
\* decrypts under the key the wrapped-key file holds, whatever the order of
\* the save, load and clear requests.
C10_VaultMatchesKeyFile ==
    (~corrupted /\ dataFile # NoFile)
        => /\ ReadStoredKey(keyFile).ok
           /\ decryptData(ReadStoredKey(keyFile).key, dataFile).ok

\* a vault file written by a second save is read back
C10_Witness ==
    /\ ~corrupted
    /\ dataFile # NoFile
    /\ nextRand >= 3
    /\ vaultReply.op = "load"
    /\ vaultReply.branch = "ok"

\* ---------------------------------------------------------------------------
\* the order of a run

Index(s, e) == IF \E i \in 1..Len(s) : s[i] = e
               THEN CHOOSE i \in 1..Len(s) : s[i] = e ELSE 0
Passed(r, e) == Index(req[r].trail, e) > 0
IsPrefix(s, t) == Len(s) <= Len(t) /\ SubSeq(t, 1, Len(s)) = s
Without(s, e) == SelectSeq(s, LAMBDA x : x # e)

\* the states of the pipeline, in the order the specification gives them
PipelineStates ==
    <<"AnnotationApplied", "PlaceholderReserved", "DigestComputed", "Signed",
      "Written">>
\* the same, with the read of the bundle where the handler has it
HandlerStates ==
    <<"AnnotationApplied", "PlaceholderReserved", "CertificateLoaded",
      "DigestComputed", "Signed", "Written">>

FailedIsTerminal ==
    \A r \in Slots :
        Passed(r, "Failed") => (req'[r] = req[r] \/ req'[r] = IdleReq)

\* C11 as stated: a run that wrote its output passed AnnotationApplied,
\* PlaceholderReserved, DigestComputed and Signed in this order, each once,
\* and read the certificate bundle after the placeholder was reserved and
\* after the digest was computed; a failed run takes no further step.
C11_CertAfterDigest ==
    /\ [](\A r \in Slots :
            Passed(r, "Written")
                => /\ Without(req[r].trail, "CertificateLoaded") = PipelineStates
                   /\ Index(req[r].trail, "CertificateLoaded")
                        > Index(req[r].trail, "PlaceholderReserved")
                   /\ Index(req[r].trail, "CertificateLoaded")
                        > Index(req[r].trail, "DigestComputed"))
    /\ [][FailedIsTerminal]_vars

\* C11: a run that wrote its output passed AnnotationApplied,
\* PlaceholderReserved, DigestComputed and Signed in this order, each once,
\* and read the certificate bundle after the placeholder was reserved and
\* before the digest was computed; every run, at every moment, has passed an
\* initial part of this order, a failed one followed by Failed only; a step
\* only adds to what was passed, and a failed run takes no further step.
C11_PipelineOrder ==
    /\ [](\A r \in Slots :
            /\ Passed(r, "Written") => req[r].trail = HandlerStates
            /\ req[r].result.st = "ok" <=> Passed(r, "Written")
            /\ req[r].result.st = "fail" <=> Passed(r, "Failed")
            /\ \/ IsPrefix(req[r].trail, HandlerStates)
               \/ /\ Passed(r, "Failed")
                  /\ Index(req[r].trail, "Failed") = Len(req[r].trail)
                  /\ IsPrefix(SubSeq(req[r].trail, 1, Len(req[r].trail) - 1),
                              SubSeq(HandlerStates, 1, Len(HandlerStates) - 1)))
    /\ [][/\ FailedIsTerminal
          /\ \A r \in Slots :
                \/ IsPrefix(req[r].trail, req'[r].trail)
                \/ req[r].pc = "done" /\ req'[r] = IdleReq]_vars

\* one run wrote its output and another failed after the bundle was read
C11_Witness ==
    \E r, q \in Slots :
        /\ req[r].trail = HandlerStates
        /\ Passed(q, "Failed") /\ Passed(q, "CertificateLoaded")

\* ---------------------------------------------------------------------------
\* the errors of a run

SignMessages ==
    {ENOENT, EParse, EPage, EEncode, ECertNotFound, EBundle, EPassphrase, ETooLong}

\* what the error of a reply tells its reader: the reply carries the message of
\* whatever was thrown and nothing else; the message of the page lookup is the
\* runtime's TypeError for a call on undefined and names no page
ErrorKind(message) ==
    CASE message = ENOENT -> "IOError"
      [] message = EParse -> "InvalidDocument"
      [] message = EPage -> "TypeError"
      [] message = EEncode -> "EncodingError"
      [] message = ECertNotFound -> "CertificateNotFound"
      [] message = EBundle -> "InvalidCertificateBundle"
      [] message = EPassphrase -> "InvalidCredentials"
      [] message = ETooLong -> "PlaceholderTooSmall"
      [] OTHER -> "Unknown"

PageOutOfRange(r) ==
    /\ IsPdf(req[r].pdfBuffer)
    /\ req[r].args.pageIndex \notin 0..(req[r].pdfBuffer[2] - 1)

\* C12 as stated: a run whose pageIndex is negative or not below the number of
\* pages of the loaded document fails with the error kind InvalidPage, before
\* the annotation is drawn, and writes no file.
C12_InvalidPage ==
    [][\A r \in Slots :
          (req[r].pc = "load" /\ PageOutOfRange(r) /\ req'[r] # req[r])
              => /\ req'[r].result.st = "fail"
                 /\ ErrorKind(req'[r].result.error) = "InvalidPage"
                 /\ Index(req'[r].trail, "AnnotationApplied") = 0
                 /\ disk' = disk
      ]_vars

NonPositiveRect(r) == req[r].args.width <= 0 \/ req[r].args.height <= 0

\* C13 as stated: a run whose rectangle has a width or a height that is zero
\* or negative fails, draws no annotation and writes no file.
C13_RectRejected ==
    \A r \in Slots :
        (req[r].pc = "done" /\ NonPositiveRect(r))
            => /\ req[r].result.st = "fail"
               /\ ~Passed(r, "AnnotationApplied")
               /\ ~Passed(r, "Written")

WrongPassphrase(r) ==
    /\ disk[req[r].args.certPath][1] = "p12"
    /\ disk[req[r].args.certPath][2] # req[r].args.password

C15_CertificateNotFound ==
    [][\A r \in Slots :
          (req[r].pc = "save" /\ disk[req[r].args.certPath] = NoFile
             /\ req'[r] # req[r])
              => /\ req'[r].pc = "done"
                 /\ req'[r].result = CatchResult(ECertNotFound)
                 /\ ErrorKind(req'[r].result.error) = "CertificateNotFound"
                 /\ Index(req'[r].trail, "Written") = 0
                 /\ disk' = disk
      ]_vars

\* a run failed for its missing bundle, and its output path holds no file
C15_Witness ==
    \E r \in Slots :
        /\ req[r].pc = "done"
        /\ disk[req[r].args.certPath] = NoFile
        /\ Passed(r, "PlaceholderReserved")
        /\ req[r].result.error = ECertNotFound
        /\ disk[outputPath(req[r].args.filePath)] = NoFile

\* ---------------------------------------------------------------------------
\* the envelope

Kind(byte) == byte[1]

\* the first nonceLen bytes are random, the next tagLen are the tag, the
\* rest is ciphertext
Layout(envelope, nonceLen, tagLen) ==
    /\ Len(envelope) > nonceLen + tagLen
    /\ \A i \in 1..Len(envelope) :
          Kind(envelope[i]) = IF i <= nonceLen THEN "rnd"
                              ELSE IF i <= nonceLen + tagLen THEN "tag"
                              ELSE "enc"

\* decryptData cuts the envelope where encryptData joined its three parts
SplitsWhereJoined(e, nonceLen, tagLen) ==
    /\ DecIvEnd = nonceLen
    /\ DecTagEnd = nonceLen + tagLen
    /\ LET iv == subarray(e.envelope, 0, DecIvEnd)
           authTag == subarray(e.envelope, DecIvEnd, DecTagEnd)
           encrypted == subarray(e.envelope, DecTagEnd, Len(e.envelope))
       IN  /\ IsRandom(iv)
           /\ encrypted = GcmEncrypt(e.key, iv, utf8Encode(JSONstringify(e.payload)))
           /\ authTag = GcmTag(e.key, iv, encrypted)

\* C16 as stated: every envelope encryptData returns is nonce, tag,
\* ciphertext with a nonce of 12 and a tag of 16 bytes: the tag is bytes
\* 12..27, the ciphertext starts at byte 28, and decryptData cuts at these
\* widths.
C16_Nonce12 ==
    \A i \in 1..Len(cipher.log) :
        /\ Layout(cipher.log[i].envelope, 12, 16)
        /\ SplitsWhereJoined(cipher.log[i], 12, 16)

\* C16: every envelope encryptData returns is nonce, tag, ciphertext with a
\* nonce of 16 and a tag of 16 bytes: the tag is bytes 16..31, the ciphertext
\* starts at byte 32, and decryptData cuts at these widths.
C16_Layout ==
    \A i \in 1..Len(cipher.log) :
        /\ Layout(cipher.log[i].envelope, 16, 16)
        /\ SplitsWhereJoined(cipher.log[i], 16, 16)

\* envelopes of both lengths were returned
C16_Witness ==
    \E i, j \in 1..Len(cipher.log) :
        Len(cipher.log[i].envelope) < Len(cipher.log[j].envelope)

LastCall == cipher.log[Len(cipher.log)]

\* C17: decryptData, given the key and the envelope of a call of
\* encryptData, returns the payload of that call, for every key and payload.
C17_RoundTrip ==
    (cipher.out.made /\ cipher.damage = "none" /\ cipher.out.key = LastCall.key)
        => /\ cipher.out.ok
           /\ cipher.out.value = LastCall.payload
           /\ cipher.out.value.certificatePath = LastCall.payload.certificatePath
           /\ cipher.out.value.passphrase = LastCall.payload.passphrase

\* the second envelope of a behaviour was opened, its payload has no passphrase
C17_Witness ==
    /\ Len(cipher.log) = 2
    /\ cipher.out.made /\ cipher.out.ok /\ cipher.damage = "none"
    /\ cipher.out.value = LastCall.payload
    /\ LastCall.payload.passphrase = Undefined

\* C18: decryptData fails, in one way and with no payload, on every envelope
\* that differs from the one encryptData returned in a byte of the nonce, the
\* tag or the ciphertext, and on every envelope cut short, shorter than nonce
\* and tag or not; a payload is returned only when the tag of the envelope is
\* the tag of its nonce and ciphertext under the key.
C18_FailsClosed ==
    /\ (cipher.out.made /\ cipher.damage # "none")
          => cipher.out = [NoOut EXCEPT !.made = TRUE, !.key = cipher.out.key]
    /\ (cipher.out.made /\ cipher.out.ok)
          => subarray(cipher.envelope, DecIvEnd, DecTagEnd)
               = GcmTag(cipher.out.key, subarray(cipher.envelope, 0, DecIvEnd),
                        subarray(cipher.envelope, DecTagEnd, Len(cipher.envelope)))
    /\ (cipher.out.made /\ ~cipher.out.ok) => cipher.out.value = NoData

\* decryptData was given the key of an envelope whose tag has a changed byte
C18_Witness ==
    /\ cipher.out.made
    /\ cipher.damage = "flip"
    /\ Kind(cipher.envelope[DecIvEnd + 1]) = "flip"
    /\ cipher.out.key = LastCall.key
    /\ ~cipher.out.ok

\* C19: no two calls of encryptData with the same key use the same nonce, so
\* no two of them, not even with the same payload, return the same envelope.
C19_NonceUnique ==
    \A i, j \in 1..Len(cipher.log) :
        (i # j /\ cipher.log[i].key = cipher.log[j].key)
            => /\ subarray(cipher.log[i].envelope, 0, IvLen)
                    # subarray(cipher.log[j].envelope, 0, IvLen)
               /\ cipher.log[i].envelope # cipher.log[j].envelope

\* the same payload was encrypted twice with the same key
C19_Witness ==
    /\ Len(cipher.log) = 2
    /\ cipher.log[1].key = cipher.log[2].key
    /\ cipher.log[1].payload = cipher.log[2].payload

\* ---------------------------------------------------------------------------
\* the byte range

\* C20: when the signer is called, the four numbers of /ByteRange describe
\* the bytes before and after the slot: the first range starts at 0 and ends
\* where the slot begins, the second begins where the slot ends and ends at
\* the end of the file, the slot being the zero bytes in hex with their two
\* brackets; writing the numbers in has not changed the length of the file.
C20_ByteRange ==
    \A r \in Slots :
        req[r].pc = "sign"
            => LET ph == req[r].placeholder
                   slotStart == OffsetOf(ph.spans, "slot")
                   slotEnd == slotStart + 2 * SignatureLength + 2
                   total == SpansLength(ph.spans)
               IN  /\ ph.byteRange[1] = 0
                   /\ ph.byteRange[1] + ph.byteRange[2] = slotStart
                   /\ ph.byteRange[3] = slotEnd
                   /\ ph.byteRange[3] + ph.byteRange[4] = total
                   /\ total = ph.added
                   /\ total > ph.saved + 2 * SignatureLength

\* two runs wait for the signer with documents of different lengths
C20_Witness ==
    \E r, q \in Slots :
        /\ req[r].pc = "sign" /\ req[q].pc = "sign"
        /\ req[r].placeholder.saved < req[q].placeholder.saved
        /\ req[r].placeholder.byteRange[2] < req[q].placeholder.byteRange[2]

\* ---------------------------------------------------------------------------
\* save, then load

\* C21: whenever save replies true, the wrapped-key file holds a key and the
\* vault file decrypts under it to the record saved, also when the wrapped-key
\* file was missing or unusable before the save; a load that follows such a
\* save, with no file altered in between, returns the record saved.
C21_SaveThenLoad ==
    [][/\ \A data \in Records :
             (vaultReply'.ret = <<"true">> /\ vaultReply'.op = "save"
                /\ SaveCredentials(data))
                 => /\ ReadStoredKey(keyFile').ok
                    /\ decryptData(ReadStoredKey(keyFile').key, dataFile')
                         = [ok |-> TRUE, value |-> data]
                    /\ getOrGenerateMasterKey(encryptionAvailable', keyFile',
                                              nextRand').keyFile = keyFile'
       /\ (/\ LoadCredentials
           /\ vaultReply.op = "save"
           /\ vaultReply.ret = <<"true">>
           /\ encryptionAvailable
           /\ ~keyCalls.touched
           /\ Intact(dataFile))
             => vaultReply'.ret = <<"value", vaultReply.data>>
      ]_vars

\* a load returned the record of a save that had found the wrapped-key file
\* unusable and had written a new one
C21_Witness ==
    /\ vaultReply.op = "load"
    /\ vaultReply.branch = "ok"
    /\ vaultReply.ret = <<"value", lastSaved[2]>>
    /\ corrupted
    /\ keyCalls.prev.made /\ keyCalls.prev.fresh
    /\ ~keyCalls.last.fresh
    /\ ~keyCalls.touchedBetween

\* C22: load leaves the vault file as it is, whatever it returns; when no
\* vault file exists it returns null without a call for the key, and leaves
\* the wrapped-key file as it is, missing if it was missing.
C22_LoadFrame ==
    [][LoadCredentials
          => /\ dataFile' = dataFile
             /\ vaultReply'.branch \in {"nofile", "nokey", "catch", "ok"}
             /\ dataFile = NoFile
                   => /\ vaultReply'.ret = Null
                      /\ vaultReply'.branch = "nofile"
                      /\ keyFile' = keyFile
                      /\ keyCalls' = keyCalls
                      /\ nextRand' = nextRand
      ]_vars

\* a load has failed to decrypt an altered vault file, which is still in place
C22_Witness ==
    /\ vaultReply.op = "load"
    /\ vaultReply.branch = "catch"
    /\ dataFile # NoFile
    /\ ~Intact(dataFile)
    /\ lastSaved # NoRecord

\* ---------------------------------------------------------------------------
\* the reply of a run

\* the position a run that does not end goes to next
NextPc(pc) ==
    CASE pc = "idle" -> "load"
      [] pc = "load" -> "embedFont"
      [] pc = "embedFont" -> "save"
      [] pc = "save" -> "sign"
      [] OTHER -> "done"

====
